---- MODULE Spec2Model ----
\* State-machine model of FyersAPI (src/fyers_client.py): one client instance,
\* its shared requests session, and the remote service as the environment
\* that answers every request with an arbitrary response.
\*
\* Conventions
\*   - Python strings are TLA+ strings; f-strings and str.join are string
\*     concatenation (\o).
\*   - Python None (and JSON null / a missing key read through dict.get) is
\*     the token None.  A JSON list value is written as the text of the list
\*     ("[]", "[ok]"): lists are the unhashable values of the model.
\*   - A mapping (dict) is a function from a finite set of string keys to
\*     values; every numeric value of a payload is written as its text.
EXTENDS Integers, Sequences, FiniteSets, TLC

VARIABLES ctor, app_id, secret_key, redirect_uri, base_url, access_token,
          session_headers, last

vars == <<last, ctor, app_id, secret_key, redirect_uri, base_url,
          access_token, session_headers>>

\* ------------------------------------------------------------------ bounds
\* number of distinct tokens the remote service may issue
NumTokens == 2
\* longest symbol list handed to get_quotes
MaxSymbols == 2

\* ------------------------------------------------------- values and inputs
None == "None"
EmptyMap == [k \in {} |-> ""]

TokenNames == <<"T1", "T2", "T3", "T4">>
Tokens == {TokenNames[i] : i \in 1..NumTokens}

\* access_token values passed to the constructor
CtorTokens == {None, "", "T0"}
AuthCodes == {"CODE1"}
StateArgs == {"xyz"}
OrderIds == {"XYZ123"}
Symbols == {"NSE:SBIN-EQ", "NSE:TCS-EQ"}

RECURSIVE SeqsUpTo(_, _)
SeqsUpTo(S, n) ==
    IF n = 0 THEN {<<>>}
    ELSE LET shorter == SeqsUpTo(S, n - 1)
         IN  shorter \cup {Append(q, x) : q \in shorter, x \in S}

SymbolLists == SeqsUpTo(Symbols, MaxSymbols)

\* mappings a caller hands to place_order / modify_order
OrderMaps == {EmptyMap, [qty |-> "5"], [qty |-> "5", id |-> "OLD1"]}

\* ------------------------------------------------------- Python semantics
\* dict.get(k): the value, or None when the key is missing
Get(d, k) == IF k \in DOMAIN d THEN d[k] ELSE None

\* values that are false in a boolean context
Falsy == {None, "", "[]"}
Truthy(v) == v \notin Falsy

\* a or b
Or(a, b) == IF Truthy(a) THEN a ELSE b

\* list values cannot be hashed: `v in {...}` raises TypeError for them
Unhashable == {"[]", "[ok]"}

\* d[k] = v
Put(d, k, v) == [x \in (DOMAIN d) \cup {k} |-> IF x = k THEN v ELSE d[x]]

\* sep.join(parts)
RECURSIVE Join(_, _)
Join(parts, sep) ==
    IF Len(parts) = 0 THEN ""
    ELSE IF Len(parts) = 1 THEN parts[1]
    ELSE parts[1] \o sep \o Join(Tail(parts), sep)

\* ------------------------------------------------------------- responses
\* A response is a status code and a raw body.  The body is text that is
\* not JSON ("invalid"), a JSON array ("array") or a JSON object ("object",
\* with its decoded mapping in data).
StatusS == {None, "", "ok", "error", "[ok]", "[]"}
StatusStatus == {None, "ok", "success", "error", "[]"}
TokenVals == {None, ""} \cup Tokens

Envelope(s, st) ==
    [k \in {x \in {"s"} : s # None} \cup {x \in {"status"} : st # None}
        |-> IF k = "s" THEN s ELSE st]

TokenPart(a, b) ==
    [k \in {x \in {"access_token"} : a # None} \cup {x \in {"accessToken"} : b # None}
        |-> IF k = "access_token" THEN a ELSE b]

Envelopes == {Envelope(s, st) : s \in StatusS, st \in StatusStatus}
TokenEnvelopes ==
    {e @@ TokenPart(a, b) : e \in {Envelope("ok", None), Envelope("error", "ok")},
                            a \in TokenVals, b \in TokenVals}

InvalidBody == [kind |-> "invalid", data |-> EmptyMap]
ArrayBody == [kind |-> "array", data |-> EmptyMap]
ObjectBody(d) == [kind |-> "object", data |-> d]
NoBody == [kind |-> "none", data |-> EmptyMap]

OkCodes == {200}
ErrorCodes == {401, 500}
ErrorBodies == {InvalidBody, ObjectBody(Envelope("ok", None)),
                ObjectBody(Envelope("error", None))}

Responses ==
    {[status_code |-> c, body |-> b] :
        c \in OkCodes, b \in {InvalidBody, ArrayBody} \cup {ObjectBody(d) : d \in Envelopes}}
    \cup {[status_code |-> c, body |-> b] : c \in ErrorCodes, b \in ErrorBodies}

TokenResponses ==
    {[status_code |-> c, body |-> ObjectBody(d)] : c \in OkCodes, d \in TokenEnvelopes}
    \cup {[status_code |-> c, body |-> b] : c \in OkCodes, b \in {InvalidBody, ArrayBody}}
    \cup {[status_code |-> c, body |-> b] : c \in ErrorCodes, b \in ErrorBodies}

\* the responses tried on the methods that take arguments
ShortResponses ==
    {[status_code |-> c, body |-> b] :
        c \in OkCodes, b \in {InvalidBody, ArrayBody, ObjectBody(Envelope("ok", None)),
                               ObjectBody(Envelope("", "success")),
                               ObjectBody(Envelope("error", "ok")),
                               ObjectBody(Envelope("[ok]", None))}}
    \cup {[status_code |-> 500, body |-> b] : b \in ErrorBodies}

\* the responses tried on get_quotes, whose symbol lists are many
QuoteResponses ==
    {[status_code |-> 200, body |-> ObjectBody(Envelope("ok", None))],
     [status_code |-> 200, body |-> ObjectBody(Envelope("error", None))],
     [status_code |-> 200, body |-> InvalidBody],
     [status_code |-> 500, body |-> InvalidBody]}

NoResp == [status_code |-> 0, body |-> NoBody]

\* requests.Response.ok: the status code is below 400
RespOk(resp) == resp.status_code < 400

\* ------------------------------------------------------------ the client
_BASE_URL_PROD == "https://api.fyers.in"
_BASE_URL_TEST == "https://api-t2.fyers.in"

\* mutation: the sandbox flag read the wrong way round
BaseUrlForInverted(sandbox) == IF sandbox THEN _BASE_URL_PROD ELSE _BASE_URL_TEST

\* base_url chosen by the constructor
BaseUrlFor(sandbox) == IF sandbox THEN _BASE_URL_TEST ELSE _BASE_URL_PROD

DefaultHeaders ==
    [k \in {"Content-Type", "User-Agent"} |->
        IF k = "Content-Type" THEN "application/json"
        ELSE "fyers-client/1.0 (+https://fyers.in)"]

\* f"Bearer {token}"
Bearer(token) == "Bearer " \o token

RequestTimeout == 15

NoErr == [kind |-> "none", status_code |-> 0, text |-> NoBody, data |-> EmptyMap]
NoArgs == [str |-> None, map |-> EmptyMap, list |-> <<>>, map_after |-> EmptyMap]

\* the request session.request sends: the session's headers at send time
\* and the keyword arguments forwarded by _request
BuildRequest(method, path, kind, payload) ==
    [method |-> method, url |-> base_url \o path, headers |-> session_headers,
     timeout |-> RequestTimeout, kind |-> kind, payload |-> payload]

\* mutation: the body is decoded before the HTTP status is looked at
NormalizeDecodeFirst(resp) ==
    IF resp.body.kind = "invalid"
    THEN [outcome |-> "DecodeError", data |-> EmptyMap,
          err |-> [NoErr EXCEPT !.kind = "DecodeError"]]
    ELSE IF ~RespOk(resp)
    THEN [outcome |-> "TransportError", data |-> EmptyMap,
          err |-> [kind |-> "TransportError", status_code |-> resp.status_code,
                   text |-> resp.body, data |-> EmptyMap]]
    ELSE [outcome |-> "ok", data |-> resp.body.data, err |-> NoErr]

\* the checks of _request on the response it received
Normalize(resp) ==
    IF ~RespOk(resp)
    THEN [outcome |-> "TransportError", data |-> EmptyMap,
          err |-> [kind |-> "TransportError", status_code |-> resp.status_code,
                   text |-> resp.body, data |-> EmptyMap]]
    ELSE IF resp.body.kind = "invalid"
    THEN [outcome |-> "DecodeError", data |-> EmptyMap,
          err |-> [NoErr EXCEPT !.kind = "DecodeError"]]
    ELSE IF resp.body.kind # "object"
    THEN [outcome |-> "AttributeError", data |-> EmptyMap,
          err |-> [NoErr EXCEPT !.kind = "AttributeError"]]
    ELSE LET data == resp.body.data
             status == Or(Get(data, "s"), Get(data, "status"))
         IN  IF status \in Unhashable
             THEN [outcome |-> "TypeError", data |-> EmptyMap,
                   err |-> [NoErr EXCEPT !.kind = "TypeError"]]
             ELSE IF status \notin {"ok", "success"}
             THEN [outcome |-> "APIError", data |-> EmptyMap,
                   err |-> [NoErr EXCEPT !.kind = "APIError", !.data = data]]
             ELSE [outcome |-> "ok", data |-> data, err |-> NoErr]

\* mutation: a failed request is sent a second time
RequestRetry(method, path, kind, payload, resp) ==
    LET req == BuildRequest(method, path, kind, payload)
    IN  [reqs |-> IF RespOk(resp) THEN <<req>> ELSE <<req, req>>] @@ Normalize(resp)

\* _request: one session.request, then the checks
Request(method, path, kind, payload, resp) ==
    [reqs |-> <<BuildRequest(method, path, kind, payload)>>] @@ Normalize(resp)

\* the record of a call that went through _request and returned its result
Called(op, args, resp, r) ==
    [op |-> op, args |-> args, resp |-> resp, reqs |-> r.reqs,
     outcome |-> r.outcome, err |-> r.err, ret |-> r.data, url |-> ""]

Init ==
    /\ ctor \in [sandbox : BOOLEAN, access_token : CtorTokens]
    /\ app_id = "APP1"
    /\ secret_key = "SECRET1"
    /\ redirect_uri = "https://your.app/redirect"
    /\ base_url = BaseUrlFor(ctor.sandbox)
    /\ access_token = ctor.access_token
    /\ session_headers =
         IF Truthy(ctor.access_token)
         THEN Put(DefaultHeaders, "Authorization", Bearer(ctor.access_token))
         ELSE DefaultHeaders
    /\ last = [op |-> "__init__", args |-> NoArgs, resp |-> NoResp, reqs |-> <<>>,
               outcome |-> "ok", err |-> NoErr, ret |-> EmptyMap, url |-> ""]

config == <<app_id, secret_key, redirect_uri, base_url>>

\* a method without arguments that returns self._request("GET", path)
SimpleGet(op, path, resps) ==
    \E resp \in resps :
        /\ last' = Called(op, NoArgs, resp, Request("GET", path, "none", EmptyMap, resp))
        /\ UNCHANGED <<ctor, config, access_token, session_headers>>

DefaultState == "sample_state"

\* mutation: the state parameter is written first
AuthUrlStateFirst(state) ==
    LET params == <<"state=" \o state, "client_id=" \o app_id,
                    "redirect_uri=" \o redirect_uri, "response_type=" \o "code">>
    IN  base_url \o "/api/v2/generate-authcode?" \o Join(params, "&")

AuthUrl(state) ==
    LET params == <<"client_id=" \o app_id, "redirect_uri=" \o redirect_uri,
                    "response_type=" \o "code", "state=" \o state>>
    IN  base_url \o "/api/v2/generate-authcode?" \o Join(params, "&")

generate_auth_url ==
    \E given \in {None} \cup StateArgs :
        LET state == IF given = None THEN DefaultState ELSE given
        IN  /\ last' = [op |-> "generate_auth_url", args |-> [NoArgs EXCEPT !.str = given],
                        resp |-> NoResp, reqs |-> <<>>, outcome |-> "ok", err |-> NoErr,
                        ret |-> EmptyMap, url |-> AuthUrl(state)]
            /\ UNCHANGED <<ctor, config, access_token, session_headers>>

\* mutation: the camel-case key is preferred
PickTokenCamelFirst(data) == Or(Get(data, "accessToken"), Get(data, "access_token"))

\* data.get("access_token") or data.get("accessToken")
PickToken(data) == Or(Get(data, "access_token"), Get(data, "accessToken"))

TokenPayload(auth_code) ==
    [appIdHash |-> app_id, code |-> auth_code, secretKey |-> secret_key]

generate_access_token ==
    \E auth_code \in AuthCodes, resp \in TokenResponses :
        LET r == Request("POST", "/api/v2/validate-authcode", "json",
                         TokenPayload(auth_code), resp)
            args == [NoArgs EXCEPT !.str = auth_code]
            token == PickToken(r.data)
        IN  IF r.outcome # "ok"
            THEN /\ last' = Called("generate_access_token", args, resp, r)
                 /\ UNCHANGED <<ctor, config, access_token, session_headers>>
            ELSE IF ~Truthy(token)
            THEN /\ access_token' = token
                 /\ last' = [Called("generate_access_token", args, resp, r) EXCEPT
                               !.outcome = "AuthenticationError",
                               !.err = [NoErr EXCEPT !.kind = "AuthenticationError"],
                               !.ret = EmptyMap]
                 /\ UNCHANGED <<ctor, config, session_headers>>
            ELSE /\ access_token' = token
                 /\ session_headers' = Put(session_headers, "Authorization", Bearer(token))
                 /\ last' = Called("generate_access_token", args, resp, r)
                 /\ UNCHANGED <<ctor, config>>

get_profile == SimpleGet("get_profile", "/api/v2/profile", Responses)
get_funds == SimpleGet("get_funds", "/api/v2/funds", ShortResponses)
get_holdings == SimpleGet("get_holdings", "/api/v2/holdings", ShortResponses)
get_positions == SimpleGet("get_positions", "/api/v2/positions", ShortResponses)
get_orders == SimpleGet("get_orders", "/api/v2/orders", ShortResponses)

place_order ==
    \E params \in OrderMaps, resp \in ShortResponses :
        /\ last' = Called("place_order",
                          [NoArgs EXCEPT !.map = params, !.map_after = params], resp,
                          Request("POST", "/api/v2/orders", "json", params, resp))
        /\ UNCHANGED <<ctor, config, access_token, session_headers>>

\* mutation: an "id" already in the mapping is kept (setdefault)
ModifyBodyKeepId(order_id, params) ==
    IF "id" \in DOMAIN params THEN params ELSE Put(params, "id", order_id)

\* order_params["id"] = order_id
ModifyBody(order_id, params) == Put(params, "id", order_id)

modify_order ==
    \E order_id \in OrderIds, params \in OrderMaps, resp \in ShortResponses :
        LET order_params == ModifyBody(order_id, params)
        IN  /\ last' = Called("modify_order",
                              [NoArgs EXCEPT !.str = order_id, !.map = params,
                                             !.map_after = order_params],
                              resp,
                              Request("PUT", "/api/v2/orders", "json", order_params, resp))
        /\ UNCHANGED <<ctor, config, access_token, session_headers>>

cancel_order ==
    \E order_id \in OrderIds, resp \in ShortResponses :
        /\ last' = Called("cancel_order", [NoArgs EXCEPT !.str = order_id], resp,
                          Request("DELETE", "/api/v2/orders/" \o order_id, "none",
                                  EmptyMap, resp))
        /\ UNCHANGED <<ctor, config, access_token, session_headers>>

get_quotes ==
    \E symbols \in SymbolLists, resp \in QuoteResponses :
        /\ last' = Called("get_quotes", [NoArgs EXCEPT !.list = symbols], resp,
                          Request("GET", "/api/v6/quotes/" \o Join(symbols, ","), "none",
                                  EmptyMap, resp))
        /\ UNCHANGED <<ctor, config, access_token, session_headers>>

get_depth ==
    \E symbol \in {"NSE:TCS-EQ"}, resp \in ShortResponses :
        /\ last' = Called("get_depth", [NoArgs EXCEPT !.str = symbol], resp,
                          Request("GET", "/api/v6/marketDepth/" \o symbol, "none",
                                  EmptyMap, resp))
        /\ UNCHANGED <<ctor, config, access_token, session_headers>>

DefaultContFlag == "1"

HistoryParams(symbol, resolution, date_format, range_from, range_to, cont_flag) ==
    [symbol |-> symbol, resolution |-> resolution, date_format |-> date_format,
     range_from |-> range_from, range_to |-> range_to, cont_flag |-> cont_flag]

get_historical_data ==
    \E symbol \in {"NSE:SBIN-EQ"}, given \in {None, "0"}, resp \in ShortResponses :
        LET cont_flag == IF given = None THEN DefaultContFlag ELSE given
            params == HistoryParams(symbol, "D", "1", "1622097600", "1622097685", cont_flag)
        IN  /\ last' = Called("get_historical_data",
                              [NoArgs EXCEPT !.str = symbol, !.map = [cont_flag |-> given]],
                              resp,
                              Request("GET", "/api/v2/history", "params", params, resp))
            /\ UNCHANGED <<ctor, config, access_token, session_headers>>

Next ==
    \/ generate_auth_url
    \/ generate_access_token
    \/ get_profile
    \/ get_funds
    \/ get_holdings
    \/ get_positions
    \/ place_order
    \/ modify_order
    \/ cancel_order
    \/ get_orders
    \/ get_quotes
    \/ get_depth
    \/ get_historical_data

Spec == Init /\ [][Next]_vars

\* ----------------------------------------------------------- properties
\* the methods that go through _request
EndpointOps ==
    {"generate_access_token", "get_profile", "get_funds", "get_holdings",
     "get_positions", "place_order", "modify_order", "cancel_order", "get_orders",
     "get_quotes", "get_depth", "get_historical_data"}

StartsWith(str, prefix) ==
    Len(str) >= Len(prefix) /\ SubSeq(str, 1, Len(prefix)) = prefix

\* the status indicator of an envelope: the value under "s" when it is
\* present and non-empty, otherwise the value under "status"
Indicator(d) ==
    IF "s" \in DOMAIN d /\ d["s"] \notin {"", "[]"} THEN d["s"]
    ELSE IF "status" \in DOMAIN d THEN d["status"] ELSE None

\* a response that _request accepts: HTTP success, a JSON object, and a
\* status indicator of "ok" or "success"
SuccessEnvelope(resp) ==
    /\ resp.status_code < 400
    /\ resp.body.kind = "object"
    /\ Indicator(resp.body.data) \in {"ok", "success"}

\* no non-empty value under either token key
NoTokenIn(d) ==
    /\ "access_token" \in DOMAIN d => d["access_token"] = ""
    /\ "accessToken" \in DOMAIN d => d["accessToken"] = ""

\* the token a client holds: None and the empty string both mean no token
Held(token) == IF token \in {None, ""} THEN None ELSE token

\* C1: in every reachable state the Authorization header of the session is
\* "Bearer <access_token>" when a non-empty token is held and absent when no
\* token is held.
C1_HeaderMatchesToken ==
    IF access_token \notin {None, ""}
    THEN /\ "Authorization" \in DOMAIN session_headers
         /\ session_headers["Authorization"] = "Bearer " \o access_token
    ELSE "Authorization" \notin DOMAIN session_headers

\* C2: a generate_access_token call that receives a successful envelope
\* without a non-empty token under either key fails with the authentication
\* error and leaves the token held and the session headers as they were.
C2_FailedExchangeKeepsToken ==
    [][(/\ last'.op = "generate_access_token"
        /\ SuccessEnvelope(last'.resp)
        /\ NoTokenIn(last'.resp.body.data))
       => /\ last'.outcome = "AuthenticationError"
          /\ Held(access_token') = Held(access_token)
          /\ session_headers' = session_headers]_vars

\* C3: a successful generate_access_token stores the token of the response
\* (the value under "access_token" when non-empty, otherwise the value under
\* "accessToken") and sets the header to "Bearer <token>"; no other call
\* changes the header, and every request carries the session's header, so
\* every request until the next successful exchange carries that token.
C3_TokenStoredAndSent ==
    [][/\ (last'.op = "generate_access_token" /\ last'.outcome = "ok")
            => LET d == last'.resp.body.data
                   t == IF "access_token" \in DOMAIN d /\ d["access_token"] # ""
                        THEN d["access_token"] ELSE d["accessToken"]
               IN  /\ access_token' = t
                   /\ "Authorization" \in DOMAIN session_headers'
                   /\ session_headers'["Authorization"] = "Bearer " \o t
       /\ ~(last'.op = "generate_access_token" /\ last'.outcome = "ok")
            => session_headers' = session_headers
       /\ \A i \in DOMAIN last'.reqs : last'.reqs[i].headers = session_headers]_vars

C3_Witness ==
    /\ ctor.access_token = None
    /\ last.op = "get_funds"
    /\ Len(last.reqs) = 1
    /\ "Authorization" \in DOMAIN last.reqs[1].headers
    /\ last.reqs[1].headers["Authorization"] = "Bearer T2"
    /\ access_token = None

\* C4: for an HTTP success response with a JSON-object body, the call fails
\* with the API error carrying the decoded body when the status indicator is
\* absent or is not "ok" / "success", and otherwise _request returns the
\* decoded mapping unchanged.
C4_IndicatorDecides ==
    (last.op \in EndpointOps /\ last.resp.status_code < 400
        /\ last.resp.body.kind = "object")
    => LET d == last.resp.body.data
       IN  IF Indicator(d) \notin {"ok", "success"}
           THEN last.outcome = "APIError" /\ last.err.data = d
           ELSE \/ last.outcome = "ok" /\ last.ret = d
                \/ last.op = "generate_access_token"
                     /\ last.outcome = "AuthenticationError"

\* C5: a response with a failure status always gives the transport error
\* with the status code and the raw body, whatever the body is; a decode
\* error arises only for a success status with a body that is not JSON.
C5_StatusCheckedFirst ==
    /\ (last.op \in EndpointOps /\ last.resp.status_code >= 400)
         => /\ last.outcome = "TransportError"
            /\ last.err.kind = "TransportError"
            /\ last.err.status_code = last.resp.status_code
            /\ last.err.text = last.resp.body
    /\ last.outcome = "DecodeError"
         => last.resp.status_code < 400 /\ last.resp.body.kind = "invalid"

C5_Witness ==
    /\ last.op = "cancel_order"
    /\ last.resp.status_code = 500
    /\ last.resp.body.kind = "invalid"
    /\ last.outcome = "TransportError"

\* C6: a call that fails leaves the configuration (base endpoint,
\* application id, secret, redirect URI, access token) and the session
\* headers as they were before the call.
C6_FailedCallChangesNothing ==
    [][last'.outcome # "ok"
       => /\ config' = config
          /\ Held(access_token') = Held(access_token)
          /\ session_headers' = session_headers]_vars

\* C7: every endpoint method issues exactly one HTTP request per call,
\* whether the call returns or raises.
C7_OneRequestPerCall ==
    last.op \in EndpointOps => Len(last.reqs) = 1

C7_Witness ==
    /\ last.op = "place_order"
    /\ last.outcome = "TransportError"
    /\ Len(last.reqs) = 1

\* C8: the base endpoint is the one selected at construction, and every
\* request URL and auth URL starts with it: the sandbox host for
\* sandbox=true, the production host otherwise.
C8_BaseEndpointFixed ==
    LET host == IF ctor.sandbox THEN "https://api-t2.fyers.in/"
                ELSE "https://api.fyers.in/"
    IN  /\ StartsWith(base_url \o "/", host)
        /\ \A i \in DOMAIN last.reqs : StartsWith(last.reqs[i].url, host)
        /\ last.op = "generate_auth_url" => StartsWith(last.url, host)

C8_Witness ==
    /\ ctor.sandbox
    /\ last.op = "get_profile"
    /\ last.outcome = "APIError"
    /\ access_token = "T1"
    /\ last.reqs[1].url = "https://api-t2.fyers.in/api/v2/profile"

\* C9: modify_order issues one PUT to the orders path whose JSON body is the
\* given mapping with "id" set to order_id (any previous "id" overwritten,
\* the other keys unchanged), and the caller's mapping holds the same
\* content afterwards, also when the request fails.
C9_ModifySetsId ==
    last.op = "modify_order"
    => LET given == last.args.map
           want == [k \in (DOMAIN given) \cup {"id"} |->
                      IF k = "id" THEN last.args.str ELSE given[k]]
       IN  /\ Len(last.reqs) = 1
           /\ last.reqs[1].method = "PUT"
           /\ last.reqs[1].url = base_url \o "/api/v2/orders"
           /\ last.reqs[1].kind = "json"
           /\ last.reqs[1].payload = want
           /\ last.args.map_after = want

C9_Witness ==
    /\ last.op = "modify_order"
    /\ last.outcome = "TransportError"
    /\ last.args.map = [qty |-> "5", id |-> "OLD1"]
    /\ last.args.map_after = [qty |-> "5", id |-> "XYZ123"]

\* C10: generate_auth_url issues no request, changes neither access_token
\* nor the session headers nor the configuration, and returns the base
\* endpoint, the authorization path and the parameters client_id,
\* redirect_uri, response_type=code, state in that order, with state
\* "sample_state" when none is given.
C10_AuthUrlPure ==
    [][last'.op = "generate_auth_url"
       => /\ last'.reqs = <<>>
          /\ config' = config
          /\ access_token' = access_token
          /\ session_headers' = session_headers
          /\ last'.url = base_url \o "/api/v2/generate-authcode?client_id=" \o app_id
                           \o "&redirect_uri=" \o redirect_uri
                           \o "&response_type=code&state="
                           \o (IF last'.args.str = None THEN "sample_state"
                               ELSE last'.args.str)]_vars

C10_Witness ==
    /\ last.op = "generate_auth_url"
    /\ last.args.str = None
    /\ access_token = "T1"
    /\ last.url = "https://api-t2.fyers.in/api/v2/generate-authcode?client_id=APP1&redirect_uri=https://your.app/redirect&response_type=code&state=sample_state"

====
